---- MODULE Spec2Model ----
(***************************************************************************)
(* Model of screenspeak.py: the polling watch loop ScreenSpeak.run, the    *)
(* poll _get_latest_screenshot, the pipeline _process_screenshot and the   *)
(* name derivation _generate_file_name, together with the file system of   *)
(* the watched directory, which changes concurrently with the program.     *)
(***************************************************************************)
EXTENDS Naturals, Integers, Sequences, FiniteSets, TLC

\* ---------------------------------------------------------------- bounds
\* number of create / delete / touch events of the file system
MaxEvents == 3
\* number of file-system events of LoopSpec
MaxLoopEvents == 2
\* longest naming-backend reply explored by NameSpec
MaxLen == 3

\* ------------------------------------------------------- the file system
\* datetime.now().timestamp() taken by __init__
StartTime == 2

File(s, e) == [stem |-> s, ext |-> e]

\* the names that can exist in the watched directory
Files == {File("a", ".png"), File("b", ".png"), File("notes", ".txt")}

\* f.endswith('.png')
endswith_png(f) == f.ext = ".png"

\* os.path.join(self.screenshot_dir, f)
join(f) == <<"screenshot_dir", f>>

None == <<"None">>

\* ------------------------------------------------------------- strings
\* a string is a sequence of characters
Chars == {"a", "4", " ", "_", "-", "%", "\t"}

\* the letters and digits among the characters of the model: those of Chars
\* and those of the literal "default_filename"
AlnumChars == {"a", "4", "d", "e", "f", "u", "l", "t", "i", "n", "m"}

\* str.isalnum() on one character
isalnum(c) == c \in AlnumChars

\* the characters str.strip() and str.rstrip() remove
isspace(c) == c \in {" ", "\t"}

RECURSIVE rstrip(_)
rstrip(s) ==
    IF s = <<>> THEN <<>>
    ELSE IF isspace(s[Len(s)]) THEN rstrip(SubSeq(s, 1, Len(s) - 1))
    ELSE s

RECURSIVE lstrip(_)
lstrip(s) ==
    IF s = <<>> THEN <<>>
    ELSE IF isspace(Head(s)) THEN lstrip(Tail(s))
    ELSE s

strip(s) == rstrip(lstrip(s))

\* c.isalnum() or c in [' ', '_', '-']
KeepChar(c) == isalnum(c) \/ c \in {" ", "_", "-"}

\* the sanitization without the final rstrip()
Sanitize_no_rstrip(s) == SelectSeq(s, KeepChar)

\* "".join([c for c in file_name if ...]).rstrip()
Sanitize(s) == rstrip(SelectSeq(s, KeepChar))

default_filename ==
    <<"d", "e", "f", "a", "u", "l", "t", "_", "f", "i", "l", "e", "n", "a", "m", "e">>

RECURSIVE StringsUpTo(_)
StringsUpTo(n) ==
    IF n = 0 THEN {<<>>}
    ELSE LET shorter == StringsUpTo(n - 1)
         IN  shorter \cup {Append(s, c) : s \in {t \in shorter : Len(t) = n - 1}, c \in Chars}

\* a reply of the chat-completion call of _generate_file_name
Raise == [kind |-> "raise"]
NoChoices == [kind |-> "no_choices"]
NullContent == [kind |-> "null_content"]
Content(s) == [kind |-> "content", text |-> s]

\* _generate_file_name from the backend reply on: the result, or an exception
generate_file_name(reply) ==
    IF reply.kind = "raise" THEN [ok |-> FALSE, raw |-> <<>>, name |-> <<>>]
    ELSE IF reply.kind = "no_choices"
         THEN [ok |-> TRUE, raw |-> default_filename, name |-> Sanitize(default_filename)]
    ELSE IF reply.kind = "null_content" THEN [ok |-> FALSE, raw |-> <<>>, name |-> <<>>]
    ELSE [ok |-> TRUE, raw |-> strip(reply.text), name |-> Sanitize(strip(reply.text))]


\* ------------------------------------------------------------- pipeline
\* the stages of _process_screenshot, in the order of its try block
Stages == <<"describe", "name", "save_text", "copy", "synth", "save_audio", "play">>

StageIndex(s) == CHOOSE i \in 1..Len(Stages) : Stages[i] = s

\* the stage whose completion writes the artifact kind k
StageOfKind(k) ==
    IF k = "text" THEN "save_text" ELSE IF k = "copy" THEN "copy" ELSE "save_audio"

\* handler without the try/except: the exception leaves run()
handler_propagate(stage) == "crashed"

\* handler that swallows the exception per stage and goes on with the next one
handler_continue(stage) ==
    IF StageIndex(stage) < Len(Stages) THEN Stages[StageIndex(stage) + 1] ELSE "sleep"

\* where run() continues after a stage of _process_screenshot raised:
\* `except Exception` ends _process_screenshot, run() assigns last_processed
\* and goes to time.sleep
handler(stage) == "sleep"

\* the text file named without the "_chatgpt" the caller appends
text_file_path_plain(base) == <<"Text Analysis", base \o <<"_analysis.txt">> >>

\* f"{file_name_base}_analysis.txt" under self.text_analysis_dir,
\* called with file_name_base + "_chatgpt"
text_file_path(base) == <<"Text Analysis", base \o <<"_chatgpt">> \o <<"_analysis.txt">> >>

\* f"{file_name_base}.png" under self.screenshot_output_dir
destination_path(base) == <<"Screenshots", base \o <<".png">> >>

\* f"{file_name_base}_audio.mp3" under self.audio_transcripts_dir,
\* called with file_name_base + "_synthesized"
audio_file_path(base) == <<"Audio Transcripts", base \o <<"_synthesized">> \o <<"_audio.mp3">> >>

\* the values of synthesized_audio: not assigned yet, response.content (some
\* bytes, or none at all) and None
Unassigned == <<"unassigned">>
AudioBytes == <<"byte">>
NoBytes == <<>>

\* `if synthesized_audio:`
Truthy(audio) == audio # None /\ audio # NoBytes

\* the replies of the naming backend explored by Spec
NameReplies ==
    {Raise, NoChoices, NullContent, Content(<<"%">>)}

\* every reply with a text of at most MaxLen characters
AllReplies == {Raise, NoChoices, NullContent} \cup {Content(s) : s \in StringsUpTo(MaxLen)}

\* ------------------------------------------------------------ the poll
\* the filter with >= in place of >
IsValid_ge(ctime, start) == ctime >= start

\* os.path.getctime(...) > self.start_time
IsValid(ctime, start) == ctime > start

\* every order a directory can hold the entries of S in
Orders(S) ==
    {o \in [1..Cardinality(S) -> S] : \A i, j \in 1..Cardinality(S) : i # j => o[i] # o[j]}

\* the first entry, whatever its key
MaxByCtime_first(files, ctime) == files[1]

\* max(valid_files, key=getctime): the first entry with the greatest key
MaxByCtime(files, ctime) ==
    LET best == CHOOSE i \in 1..Len(files) :
                    /\ \A j \in 1..Len(files) : ctime[files[j]] <= ctime[files[i]]
                    /\ \A j \in 1..(i - 1) : ctime[files[j]] < ctime[files[i]]
    IN  files[best]

\* latest_screenshot and latest_screenshot != self.last_processed
IsNew(latest, last) == latest # None /\ latest # last

\* --------------------------------------------------------------- state
VARIABLES
    dir,               \* watched directory: ctime of each name, 0 when absent
    listing,           \* watched directory: the order os.listdir returns its names in
    clock,             \* time of the latest file-system event
    events,            \* file-system events so far
    start_time,        \* self.start_time
    last_processed,    \* self.last_processed
    pc,                \* position of run()
    png_files,         \* _get_latest_screenshot: png_files
    valid_files,       \* _get_latest_screenshot: valid_files
    valid_ctime,       \* the ctime line 73 read for each entry of valid_files
    latest_screenshot, \* run(): latest_screenshot, the file being processed
    file_name,         \* _generate_file_name: file_name before line 208
    file_name_base,    \* _process_screenshot: file_name_base
    written,           \* artifact kinds the current run has written
    failed_at,         \* stage of the current run that raised, or "none"
    synthesized_audio, \* _process_screenshot: synthesized_audio
    store,             \* paths present in the output tree
    dispatched,        \* history: calls of _process_screenshot, in order
    tampered,          \* history: names deleted or touched since creation
    new_since_poll,    \* history: an eligible file appeared since the last listing
    new_at_poll,       \* history: new_since_poll as found by the poll of this iteration
    run_failed,        \* history: least ctime of the files whose run failed, 0 if none
    after_fail         \* history: screenshots created, as the newest file, after a run failed

vars ==
    <<dir, listing, clock, events, start_time, last_processed, pc, png_files,
      valid_files, valid_ctime, latest_screenshot, file_name, file_name_base, written,
      failed_at, synthesized_audio, store, dispatched, tampered, new_since_poll,
      new_at_poll, run_failed, after_fail>>

fsVars == <<dir, listing, clock, events, tampered, new_since_poll, after_fail>>
pollVars == <<png_files, valid_files, valid_ctime>>
runVars == <<file_name, file_name_base, written, failed_at, synthesized_audio>>
histVars == <<dispatched, new_at_poll, run_failed>>

NoCtime == [f \in Files |-> 0]

\* __init__: the directory holds any files created before the session start
Init ==
    /\ dir \in [Files -> {0, StartTime - 1}]
    /\ listing \in {o \in Orders({f \in Files : dir[f] # 0}) :
                       \A i \in 1..(Len(o) - 1) : endswith_png(o[i])}
    /\ clock = StartTime
    /\ events = 0
    /\ start_time = StartTime
    /\ last_processed = None
    /\ pc = "poll"
    /\ png_files = <<>>
    /\ valid_files = <<>>
    /\ valid_ctime = NoCtime
    /\ latest_screenshot = None
    /\ file_name = <<>>
    /\ file_name_base = <<>>
    /\ written = {}
    /\ failed_at = "none"
    /\ synthesized_audio = Unassigned
    /\ store = {}
    /\ dispatched = <<>>
    /\ tampered = {}
    /\ new_since_poll = TRUE
    /\ new_at_poll = FALSE
    /\ run_failed = 0
    /\ after_fail = {}

Eligible(f) == endswith_png(f) /\ dir[f] # 0 /\ IsValid(dir[f], start_time)

\* ------------------------------------------------- file-system events
\* the times the next event can happen at: now, or one tick later
Times == {clock, clock + 1}

\* history: a run has failed on an older file, and a file created at t is
\* newer than every file of the directory
CreatedAfterFailure(t) ==
    /\ run_failed # 0
    /\ run_failed < t
    /\ \A g \in Files : dir[g] < t

\* history: an eligible file appears (new); it counts for the poll under way
\* and for the next one
Appeared(new) ==
    /\ new_since_poll' = (new_since_poll \/ new)
    /\ new_at_poll' = (new_at_poll \/ (new /\ pc \in {"filter", "max"}))

\* the places of the listing a new entry can take; the place of an entry that
\* line 72 filters out changes nothing the program reads, so it is put last
Slots(f) == IF endswith_png(f) THEN 0..Len(listing) ELSE {Len(listing)}

CreateFile(f, t) ==
    /\ events < MaxEvents
    /\ dir[f] = 0
    /\ dir' = [dir EXCEPT ![f] = t]
    /\ \E i \in Slots(f) :
           listing' = SubSeq(listing, 1, i) \o <<f>> \o SubSeq(listing, i + 1, Len(listing))
    /\ clock' = t
    /\ events' = events + 1
    /\ Appeared(endswith_png(f) /\ IsValid(t, start_time))
    /\ after_fail' = IF endswith_png(f) /\ CreatedAfterFailure(t) THEN after_fail \cup {f} ELSE after_fail
    /\ UNCHANGED <<tampered, start_time, last_processed, pc, pollVars,
                   latest_screenshot, runVars, store, dispatched, run_failed>>

\* the program reads nothing of a file that is no .png but its name in the
\* listing, so only screenshots are deleted
DeleteFile(f) ==
    /\ events < MaxEvents
    /\ endswith_png(f)
    /\ dir[f] # 0
    /\ dir' = [dir EXCEPT ![f] = 0]
    /\ listing' = SelectSeq(listing, LAMBDA g : g # f)
    /\ events' = events + 1
    /\ tampered' = tampered \cup {f}
    /\ UNCHANGED <<clock, new_since_poll, after_fail, start_time, last_processed, pc,
                   pollVars, latest_screenshot, runVars, store, histVars>>

\* a change of the creation time of a screenshot: it becomes the time of the
\* change (the program reads the creation time of .png files only)
TouchFile(f, t) ==
    /\ events < MaxEvents
    /\ endswith_png(f)
    /\ dir[f] # 0
    /\ dir[f] # t
    /\ dir' = [dir EXCEPT ![f] = t]
    /\ clock' = t
    /\ events' = events + 1
    /\ tampered' = tampered \cup {f}
    /\ Appeared(~Eligible(f) /\ IsValid(t, start_time))
    /\ UNCHANGED <<listing, after_fail, start_time, last_processed, pc, pollVars,
                   latest_screenshot, runVars, store, dispatched, run_failed>>

FsStep ==
    \E f \in Files :
        \/ \E t \in Times : CreateFile(f, t)
        \/ DeleteFile(f)
        \/ \E t \in Times : TouchFile(f, t)

\* --------------------------------------------- _get_latest_screenshot
\* line 72: os.listdir and the .png filter
PollList ==
    /\ pc = "poll"
    /\ png_files' = SelectSeq(listing, endswith_png)
    /\ pc' = "filter"
    /\ new_at_poll' = new_since_poll
    /\ new_since_poll' = FALSE
    /\ UNCHANGED <<dir, listing, clock, events, tampered, after_fail, start_time,
                   last_processed, valid_files, valid_ctime, latest_screenshot, runVars,
                   store, dispatched, run_failed>>

\* the error of os.listdir swallowed: run() sleeps and polls again
PollListError_retry ==
    /\ pc = "poll"
    /\ pc' = "sleep"
    /\ UNCHANGED <<fsVars, start_time, last_processed, pollVars, latest_screenshot,
                   runVars, store, histVars>>

\* line 72: os.listdir raises (directory missing or unreadable); run() ends
PollListError ==
    /\ pc = "poll"
    /\ pc' = "crashed"
    /\ UNCHANGED <<fsVars, start_time, last_processed, pollVars, latest_screenshot,
                   runVars, store, histVars>>

Listed(files) == {files[i] : i \in 1..Len(files)}

\* lines 73-75: getctime of every listed file, the start_time filter, the
\* empty case; getctime of a file deleted since the listing raises
PollFilter ==
    /\ pc = "filter"
    /\ IF \E f \in Listed(png_files) : dir[f] = 0
       THEN /\ pc' = "crashed"
            /\ UNCHANGED <<valid_files, valid_ctime>>
       ELSE LET valid == SelectSeq(png_files, LAMBDA f : IsValid(dir[f], start_time))
            IN  /\ valid_files' = valid
                /\ valid_ctime' = [f \in Files |-> IF f \in Listed(valid) THEN dir[f] ELSE 0]
                /\ pc' = IF valid = <<>> THEN "sleep" ELSE "max"
    /\ png_files' = <<>>
    /\ UNCHANGED <<fsVars, start_time, last_processed, latest_screenshot, runVars,
                   store, histVars>>

\* lines 76-77 and 61-62: the second getctime of every valid file, max, and
\* the comparison with last_processed; a new file is dispatched
PollMax ==
    /\ pc = "max"
    /\ IF \E f \in Listed(valid_files) : dir[f] = 0
       THEN /\ pc' = "crashed"
            /\ UNCHANGED <<latest_screenshot, dispatched>>
       ELSE LET latest == join(MaxByCtime(valid_files, dir))
            IN  IF IsNew(latest, last_processed)
                THEN /\ latest_screenshot' = latest
                     /\ dispatched' = Append(dispatched, latest)
                     /\ pc' = "describe"
                ELSE /\ pc' = "sleep"
                     /\ UNCHANGED <<latest_screenshot, dispatched>>
    /\ valid_files' = <<>>
    /\ UNCHANGED <<fsVars, start_time, last_processed, png_files, valid_ctime, runVars,
                   store, new_at_poll, run_failed>>

\* line 64: time.sleep(self.poll_interval); what the iteration held is dropped
Sleep ==
    /\ pc = "sleep"
    /\ pc' = "poll"
    /\ latest_screenshot' = None
    /\ file_name' = <<>>
    /\ file_name_base' = <<>>
    /\ written' = {}
    /\ failed_at' = "none"
    /\ synthesized_audio' = Unassigned
    /\ valid_ctime' = NoCtime
    /\ new_at_poll' = FALSE
    /\ UNCHANGED <<fsVars, start_time, last_processed, png_files, valid_files, store,
                   dispatched, run_failed>>

\* ------------------------------------------------- _process_screenshot
CurrentFile == latest_screenshot[2]

\* the ctime the poll read for the file being processed
CurrentCtime == valid_ctime[CurrentFile]

\* a stage raised and run() goes on without recording the file
Fail_unrecorded(stage) ==
    /\ failed_at' = stage
    /\ pc' = handler(stage)
    /\ last_processed' = last_processed
    /\ run_failed' = IF run_failed = 0 \/ CurrentCtime < run_failed
                     THEN CurrentCtime ELSE run_failed

\* a stage raised: lines 98-99, then line 63 when run() goes on
Fail(stage) ==
    /\ failed_at' = stage
    /\ pc' = handler(stage)
    /\ last_processed' = IF handler(stage) = "sleep" THEN latest_screenshot
                         ELSE last_processed
    /\ run_failed' = IF run_failed = 0 \/ CurrentCtime < run_failed
                     THEN CurrentCtime ELSE run_failed

\* _process_screenshot returns normally: line 63
Return ==
    /\ pc' = "sleep"
    /\ last_processed' = latest_screenshot
    /\ UNCHANGED <<failed_at, run_failed>>

\* the stage completed and records the file as processed itself
Continue_mark(next) ==
    /\ pc' = next
    /\ last_processed' = latest_screenshot
    /\ UNCHANGED <<failed_at, run_failed>>

\* the stage completed: on to the next one
Continue(next) ==
    /\ pc' = next
    /\ UNCHANGED <<last_processed, failed_at, run_failed>>

\* line 83: _generate_script opens the screenshot and calls the describer
GenerateScript ==
    /\ pc = "describe"
    /\ \/ /\ dir[CurrentFile] # 0
          /\ Continue("name")
       \/ Fail("describe")
    /\ UNCHANGED <<fsVars, start_time, pollVars, latest_screenshot, file_name,
                   file_name_base, written, synthesized_audio, store, dispatched,
                   new_at_poll>>

\* line 86: _generate_file_name
GenerateFileName(reply) ==
    /\ pc = "name"
    /\ LET r == generate_file_name(reply)
       IN  IF r.ok
           THEN /\ file_name' = r.raw
                /\ file_name_base' = r.name
                /\ Continue("save_text")
           ELSE /\ Fail("name")
                /\ UNCHANGED <<file_name, file_name_base>>
    /\ UNCHANGED <<fsVars, start_time, pollVars, latest_screenshot, written,
                   synthesized_audio, store, dispatched, new_at_poll>>

\* a stage that writes one file: it completes, or it raises before or after
\* the file was created
WriteStage(stage, kind, path, next) ==
    /\ pc = stage
    /\ \/ /\ store' = store \cup {path}
          /\ written' = written \cup {kind}
          /\ Continue(next)
       \/ /\ Fail(stage)
          /\ \/ UNCHANGED <<store, written>>
             \/ /\ store' = store \cup {path}
                /\ written' = written \cup {kind}
    /\ UNCHANGED <<fsVars, start_time, pollVars, latest_screenshot, file_name,
                   file_name_base, synthesized_audio, dispatched, new_at_poll>>

\* the text stage followed by the synthesis, the copy left out
SaveTextAnalysis_skip_copy ==
    WriteStage("save_text", "text", text_file_path(file_name_base), "synth")

\* line 89: _save_text_analysis
SaveTextAnalysis == WriteStage("save_text", "text", text_file_path(file_name_base), "copy")

\* line 92: _copy_screenshot; shutil.copy2 raises when the source is gone
CopyScreenshot ==
    \/ /\ pc = "copy"
       /\ dir[CurrentFile] # 0
       /\ WriteStage("copy", "copy", destination_path(file_name_base), "synth")
    \/ /\ pc = "copy"
       /\ dir[CurrentFile] = 0
       /\ Fail("copy")
       /\ UNCHANGED <<fsVars, start_time, pollVars, latest_screenshot, file_name,
                      file_name_base, written, synthesized_audio, store, dispatched,
                      new_at_poll>>

\* the synthesis whose result goes to _save_and_play_audio unexamined
SynthesizeSpeech_unguarded ==
    /\ pc = "synth"
    /\ \/ \E audio \in {AudioBytes, NoBytes, None} :
              /\ synthesized_audio' = audio
              /\ Continue("save_audio")
       \/ /\ Fail("synth")
          /\ UNCHANGED synthesized_audio
    /\ UNCHANGED <<fsVars, start_time, pollVars, latest_screenshot, file_name,
                   file_name_base, written, store, dispatched, new_at_poll>>

\* lines 95-96: _synthesize_speech returns response.content, returns None
\* (response not ok), or raises; _save_and_play_audio is called when
\* `if synthesized_audio:` holds, and _process_screenshot returns otherwise
SynthesizeSpeech ==
    /\ pc = "synth"
    /\ \/ \E audio \in {AudioBytes, NoBytes, None} :
              /\ synthesized_audio' = audio
              /\ IF Truthy(audio) THEN Continue("save_audio") ELSE Return
       \/ /\ Fail("synth")
          /\ UNCHANGED synthesized_audio
    /\ UNCHANGED <<fsVars, start_time, pollVars, latest_screenshot, file_name,
                   file_name_base, written, store, dispatched, new_at_poll>>

\* lines 167-172: _save_and_play_audio writes the audio file
SaveAudio == WriteStage("save_audio", "audio", audio_file_path(file_name_base), "play")

\* lines 175-178: mpg123 plays, fails (CalledProcessError, caught there), or
\* cannot be started (raises)
PlayAudio ==
    /\ pc = "play"
    /\ \/ Return
       \/ Fail("play")
    /\ UNCHANGED <<fsVars, start_time, pollVars, latest_screenshot, file_name,
                   file_name_base, written, synthesized_audio, store, dispatched,
                   new_at_poll>>

Pipeline ==
    \/ GenerateScript
    \/ \E reply \in NameReplies : GenerateFileName(reply)
    \/ SaveTextAnalysis
    \/ CopyScreenshot
    \/ SynthesizeSpeech
    \/ SaveAudio
    \/ PlayAudio

\* one step of run()
RunStep == PollList \/ PollListError \/ PollFilter \/ PollMax \/ Pipeline \/ Sleep

Next == FsStep \/ RunStep

Spec == Init /\ [][Next]_vars

\* the watch loop under the scheduling of a running process: run() takes its
\* next step whenever it has one
FairSpec == Spec /\ WF_vars(RunStep)

\* the same loop in a directory that changes at most MaxLoopEvents times
LoopNext == (events < MaxLoopEvents /\ FsStep) \/ RunStep

LoopSpec == Init /\ [][LoopNext]_vars /\ WF_vars(RunStep)

\* _generate_file_name alone, on every reply of at most MaxLen characters, in
\* a run on a.png
NameInit ==
    /\ dir = [f \in Files |-> IF f = File("a", ".png") THEN StartTime + 1 ELSE 0]
    /\ listing = <<File("a", ".png")>>
    /\ clock = StartTime + 1
    /\ events = 1
    /\ start_time = StartTime
    /\ last_processed = None
    /\ pc = "name"
    /\ png_files = <<>>
    /\ valid_files = <<>>
    /\ valid_ctime = [f \in Files |-> IF f = File("a", ".png") THEN StartTime + 1 ELSE 0]
    /\ latest_screenshot = join(File("a", ".png"))
    /\ file_name = <<>>
    /\ file_name_base = <<>>
    /\ written = {}
    /\ failed_at = "none"
    /\ synthesized_audio = Unassigned
    /\ store = {}
    /\ dispatched = <<join(File("a", ".png"))>>
    /\ tampered = {}
    /\ new_since_poll = FALSE
    /\ new_at_poll = TRUE
    /\ run_failed = 0
    /\ after_fail = {}

NameNext == \E reply \in AllReplies : GenerateFileName(reply)

NameSpec == NameInit /\ [][NameNext]_vars

\* --------------------------------------------------------------- claims
PipelinePcs == {Stages[i] : i \in 1..Len(Stages)}

InPipeline == pc \in PipelinePcs

PngFiles == {f \in Files : f.ext = ".png"}

DispatchedBefore(f, i) == \E j \in 1..(i - 1) : dispatched[j] = join(f)

\* C1: every .png file created after the session start, with strictly
\* increasing creation times, is dispatched exactly once and in the order of
\* the creation times: when a file is dispatched, every file created before it
\* (and neither deleted nor touched) has been dispatched before, and no such
\* file is dispatched twice.
C1_EachOnceInOrder ==
    \A i \in 1..Len(dispatched) :
        LET g == dispatched[i][2]
        IN  g \notin tampered =>
                /\ ~DispatchedBefore(g, i)
                /\ \A f \in PngFiles :
                       (f \notin tampered /\ dir[f] > start_time /\ dir[f] < dir[g])
                           => DispatchedBefore(f, i)

\* C2: no path is passed to _process_screenshot twice in a session, whatever
\* is created, deleted or touched in the directory.
C2_NoPathTwice ==
    \A i, j \in 1..Len(dispatched) : i # j => dispatched[i] # dispatched[j]

\* C3: every path passed to _process_screenshot names a .png file whose
\* creation time, as read by the poll that selected it, is strictly greater
\* than start_time.
C3_OnlyEligibleDispatched ==
    /\ \A i \in 1..Len(dispatched) : dispatched[i][2].ext = ".png"
    /\ latest_screenshot # None =>
           /\ latest_screenshot[2].ext = ".png"
           /\ valid_ctime[latest_screenshot[2]] > start_time

\* C3 happens: b.png is being processed while a.png, created before the
\* session start, and a file that is no .png are in the directory
C3_Witness ==
    /\ latest_screenshot = join(File("b", ".png"))
    /\ dir[File("a", ".png")] # 0
    /\ dir[File("a", ".png")] < start_time
    /\ dir[File("notes", ".txt")] > start_time

\* C4: a poll dispatches nothing when no new eligible file appeared since the
\* poll before it.
C4_SecondPollDispatchesNothing == InPipeline => new_at_poll

\* C5: once _process_screenshot is entered, run() reaches the following sleep
\* and then the next poll, whichever stage raises.
C5_ReachesSleepAndPoll ==
    /\ InPipeline ~> (pc = "sleep")
    /\ (pc = "sleep") ~> (pc = "poll")

\* C5 happens: a stage raised and run() is at its sleep
C5_Witness == pc = "sleep" /\ failed_at \in PipelinePcs

\* C6: after a stage of a run raised, no later stage of that run executes and
\* the run has written no artifact of a later stage; a run whose describe
\* stage raised has written nothing.
C6_FailureAbortsRun ==
    failed_at # "none" =>
        /\ ~InPipeline
        /\ \A k \in written : StageIndex(StageOfKind(k)) <= StageIndex(failed_at)
        /\ failed_at = "describe" => written = {}

\* C6 happens: the copy stage raised after the text analysis was written
C6_Witness == failed_at = "copy" /\ written = {"text"} /\ pc = "sleep"

\* C7: a .png file created after a run failed, with a greater creation time
\* than the failed file and than every other file, is eventually dispatched
\* (unless it is deleted or touched, or the poll raises).
C7_NextFileDispatched ==
    \A f \in PngFiles :
        [](f \in after_fail
              => <>(\/ \E i \in 1..Len(dispatched) : dispatched[i] = join(f)
                    \/ f \in tampered
                    \/ pc = "crashed"))

\* C8: a failure of the naming backend never makes the run fail.
C8_NamingFailureNotARunFailure == failed_at # "name"

\* C9: _generate_file_name returns a non-empty name for every reply.
C9_NameNonEmpty ==
    pc \in {"save_text", "copy", "synth", "save_audio", "play"} => file_name_base # <<>>

\* the indices of s that hold an alphanumeric character, a space, an
\* underscore or a hyphen
C10_Kept(s) == {i \in 1..Len(s) : s[i] \in AlnumChars \cup {" ", "_", "-"}}

\* those up to the last one that holds no whitespace
C10_Left(s) ==
    {i \in C10_Kept(s) : \E j \in C10_Kept(s) : j >= i /\ s[j] \notin {" ", "\t"}}

\* C10: the sanitized name is the subsequence of the characters of file_name
\* that are alphanumeric, space, underscore or hyphen, in their order, without
\* its trailing whitespace.
C10_SanitizeKeepsAllowedChars ==
    pc = "save_text" =>
        /\ Len(file_name_base) = Cardinality(C10_Left(file_name))
        /\ \A i \in C10_Left(file_name) :
               file_name_base[Cardinality({j \in C10_Left(file_name) : j <= i})]
                   = file_name[i]

\* C10 happens: a character is removed and the space before it is trimmed
C10_Witness ==
    /\ pc = "save_text"
    /\ file_name = <<"4", " ", "%">>
    /\ file_name_base = <<"4">>

\* C11: a poll never ends run() because a listed .png file was deleted before
\* its creation time is read: from the filter (line 73) and from max (line 76)
\* the poll goes on to a result, never to the end of run().
C11_StatErrorTolerated ==
    [][(pc \in {"filter", "max"}) => (pc' # "crashed")]_vars

\* the artifact kinds of the stages before stage s
C12_Done(s) ==
    {k \in {"text", "copy", "audio"} : StageIndex(StageOfKind(k)) < StageIndex(s)}

\* C12: within one run the stages execute in the order describe, name,
\* save_text, copy, synth, save_audio, play: a run starts at describe, a
\* stage starts only from the stage just before it and only when no stage of
\* the run has raised, so no stage runs twice; while a stage runs, the
\* artifacts of every earlier stage have been written and no others.
C12_StagesInOrder ==
    /\ [](InPipeline => (failed_at = "none" /\ written = C12_Done(pc)))
    /\ [][(pc' \in PipelinePcs /\ pc' # pc) =>
              \/ pc = "max" /\ pc' = "describe"
              \/ /\ pc \in PipelinePcs
                 /\ StageIndex(pc') = StageIndex(pc) + 1
                 /\ failed_at' = "none"]_vars

\* C12 happens: the last stage runs after every stage before it completed
C12_Witness ==
    /\ pc = "play"
    /\ failed_at = "none"
    /\ written = {"text", "copy", "audio"}

\* C13: the output tree is append-only across runs: no step removes a path
\* from it, and a stage that writes an artifact creates a path that was not
\* there, so no run rewrites the artifact of an earlier run.
C13_AppendOnly ==
    [][/\ store \subseteq store'
       /\ (written' \ written # {}) => (store' # store)]_vars

\* C14: last_processed changes only when _process_screenshot ends and run()
\* records the dispatched path (line 63); a step inside the pipeline that
\* goes on to a next stage leaves it alone, every step of a poll leaves it
\* alone, whatever the poll finds, and start_time never changes.
C14_LastProcessedFrame ==
    [][/\ start_time' = start_time
       /\ (last_processed' # last_processed) =>
              (InPipeline /\ pc' = "sleep" /\ last_processed' = latest_screenshot)
       /\ (pc' \in PipelinePcs) => (last_processed' = last_processed)
       /\ (pc \in {"poll", "filter", "max"}) => (last_processed' = last_processed)]_vars

\* C14 happens: the run on b.png has passed four stages and last_processed is
\* still a.png, the file of the run before
C14_Witness ==
    /\ pc = "synth"
    /\ latest_screenshot = join(File("b", ".png"))
    /\ last_processed = join(File("a", ".png"))

\* the screenshots in the watched directory
C15_Present == {f \in PngFiles : dir[f] # 0}

\* the eligible files in the watched directory
C15_Eligible == {f \in Files : Eligible(f)}

\* path p names an eligible file of the greatest creation time
C15_IsLatest(p) ==
    /\ p # None
    /\ p[2] \in C15_Eligible
    /\ \A f \in C15_Eligible : dir[f] <= dir[p[2]]

\* C15: a poll over the directory as it listed it returns None exactly when
\* no file is eligible (it then goes to the sleep without dispatch), and
\* otherwise returns an eligible file of the greatest creation time: the file
\* it dispatches, or last_processed when it dispatches nothing; a poll
\* dispatches at most one file, the one it returned.
C15_PollReturnsLatest ==
    [][/\ (pc = "filter" /\ pc' \in {"sleep", "max"} /\ Listed(png_files) = C15_Present)
              => (pc' = "sleep" <=> C15_Eligible = {})
       /\ (pc = "max" /\ pc' = "describe" /\ Listed(valid_files) = C15_Eligible)
              => C15_IsLatest(latest_screenshot')
       /\ (pc = "max" /\ pc' = "sleep" /\ Listed(valid_files) = C15_Eligible)
              => C15_IsLatest(last_processed)
       /\ (dispatched' # dispatched)
              => /\ pc = "max"
                 /\ pc' = "describe"
                 /\ dispatched' = Append(dispatched, latest_screenshot')]_vars

\* C15 happens: the poll has returned b.png, the later of two eligible files
\* and the second of the listing
C15_Witness ==
    /\ pc = "describe"
    /\ latest_screenshot = join(File("b", ".png"))
    /\ Eligible(File("a", ".png"))
    /\ dir[File("a", ".png")] < dir[File("b", ".png")]
    /\ listing[1] = File("a", ".png")

\* C16: the file max selects depends only on the eligible files and their
\* creation times: in whatever order the listing returns the same files, the
\* poll selects the same one.
C16_SelectionIgnoresListingOrder ==
    (pc = "max" /\ \A f \in Listed(valid_files) : dir[f] # 0) =>
        \A o \in Orders(Listed(valid_files)) :
            MaxByCtime(o, dir) = MaxByCtime(valid_files, dir)

\* C17: an error of the directory listing ends run(): from the listing run()
\* goes on to the filter or ends, it dispatches nothing and leaves
\* last_processed alone; once ended, run() takes no further step, so the
\* listing is not retried and nothing is dispatched or written.
C17_ListingErrorFatal ==
    [][/\ (pc = "poll" /\ pc' \notin {"poll", "filter"})
              => /\ pc' = "crashed"
                 /\ dispatched' = dispatched
                 /\ last_processed' = last_processed
       /\ (pc = "crashed")
              => /\ pc' = "crashed"
                 /\ dispatched' = dispatched
                 /\ last_processed' = last_processed
                 /\ store' = store]_vars

\* C17 happens: the listing raised in the poll after the run on a.png, while
\* the newer b.png waits in the directory; b.png is not dispatched
C17_Witness ==
    /\ pc = "crashed"
    /\ new_since_poll
    /\ ~new_at_poll
    /\ last_processed = join(File("a", ".png"))
    /\ Eligible(File("b", ".png"))
    /\ dir[File("a", ".png")] < dir[File("b", ".png")]
    /\ dispatched = <<join(File("a", ".png"))>>

C18_Kinds == {"text", "copy", "audio"}

\* the path of the artifact of kind k of a run with base name b:
\* "<b>_chatgpt_analysis.txt", "<b>.png" and "<b>_synthesized_audio.mp3", each
\* in the directory of its kind
C18_Path(k, b) ==
    IF k = "text" THEN <<"Text Analysis", b \o <<"_chatgpt", "_analysis.txt">> >>
    ELSE IF k = "copy" THEN <<"Screenshots", b \o <<".png">> >>
    ELSE <<"Audio Transcripts", b \o <<"_synthesized", "_audio.mp3">> >>

\* C18: the artifacts of one run are named after the one base name the run
\* derived: every stage that writes creates the path of its kind for that
\* base name, the base name does not change from its derivation to the end of
\* the run, the artifacts the run has written are in the store at those
\* paths, and the paths of two kinds are in two directories.
C18_SharedBaseName ==
    /\ [](\A k \in written : C18_Path(k, file_name_base) \in store)
    /\ [](\A k, l \in C18_Kinds :
              k # l => C18_Path(k, file_name_base)[1] # C18_Path(l, file_name_base)[1])
    /\ [][/\ (written' \ written # {})
                 => \E k \in C18_Kinds \ written :
                        /\ written' = written \cup {k}
                        /\ store' = store \cup {C18_Path(k, file_name_base)}
          /\ (pc \in {"save_text", "copy", "synth", "save_audio", "play"} /\ pc' # "poll")
                 => (file_name_base' = file_name_base)]_vars

\* C18 happens: a run named default_filename has written its three artifacts
C18_Witness ==
    /\ pc = "play"
    /\ file_name_base = default_filename
    /\ written = C18_Kinds
    /\ \A k \in C18_Kinds : C18_Path(k, default_filename) \in store

\* C19: when a stage of a run raises, the file of the run is recorded as
\* last_processed and run() goes to its sleep; a poll never dispatches the
\* path recorded as last_processed, so the file is not dispatched again while
\* the polls select it: no path is dispatched twice in a row.
C19_FailedFileNotRetried ==
    /\ [][/\ (InPipeline /\ failed_at' # failed_at /\ failed_at' # "none")
                 => (last_processed' = latest_screenshot /\ pc' = "sleep")
          /\ (dispatched' # dispatched)
                 => (latest_screenshot' # last_processed)]_vars
    /\ [](\A i \in 1..(Len(dispatched) - 1) : dispatched[i] # dispatched[i + 1])

\* C19 happens: the run on a.png failed, and the poll of a later iteration
\* has selected a.png again and dispatched nothing
C19_Witness ==
    /\ pc = "sleep"
    /\ latest_screenshot = None
    /\ valid_ctime[File("a", ".png")] # 0
    /\ run_failed # 0
    /\ last_processed = join(File("a", ".png"))
    /\ dispatched = <<join(File("a", ".png"))>>

\* C20: when _synthesize_speech returns None the run ends there without
\* raising: nothing is written or played at that step or after it, the run
\* has written its text analysis and its copy and no audio, both are in the
\* store, and run() records the file and sleeps.
C20_NoAudioWithoutSpeech ==
    /\ [](synthesized_audio = None =>
              /\ pc = "sleep"
              /\ failed_at = "none"
              /\ written = {"text", "copy"}
              /\ C18_Path("text", file_name_base) \in store
              /\ C18_Path("copy", file_name_base) \in store
              /\ last_processed = latest_screenshot)
    /\ [][(synthesized_audio' = None /\ synthesized_audio # None) =>
              (pc = "synth" /\ store' = store /\ written' = written)]_vars

\* C20 happens: the synthesis returned None and the run has ended
C20_Witness ==
    /\ synthesized_audio = None
    /\ pc = "sleep"
    /\ written = {"text", "copy"}
    /\ store # {}

====
